---- MODULE Spec2Model ----
(***************************************************************************)
(* State-machine model of the starry surface map facade                    *)
(* (src/starry2/maps.h, class maps::Map<T, U>) together with the parts of  *)
(* the basis and rotation classes it calls.                                *)
(*                                                                         *)
(* Numbers are exact rationals <<n, d>> with d > 0 in lowest terms; the    *)
(* IEEE not-a-number is <<0, 0>>.  Vectors are functions on 0..N-1, as in  *)
(* the code.                                                               *)
(***************************************************************************)
EXTENDS Integers, Sequences, FiniteSets, TLC

(***************************************************************************)
(* Bounds of the model.                                                    *)
(***************************************************************************)
\* largest degree a map is constructed with
MaxLmax == 1
\* coefficient values passed to the setters are 0..MaxCoeff
MaxCoeff == 2
\* longest index / value batch passed to the bulk operations
MaxBatch == 2
\* number of operations applied to a map after its construction
MaxOps == 2

VARIABLES
    lmax,           \* Map::lmax
    N,              \* Map::N
    Y00_is_unity,   \* Map::Y00_is_unity
    T,              \* the scalar type of Map<T, U>: "double" or "Multi"
    y,              \* Map::y
    p,              \* Map::p
    g,              \* Map::g
    axis,           \* Map::axis
    tmp_vec,        \* Map::tmp_vec
    tmp_col_vec,    \* Map::tmp_col_vec
    tmp_vec_ptr,    \* Map::tmp_vec_ptr: "uninit", "p" or "tmp_vec"
    dI,             \* Map::dI
    dI_names,       \* Map::dI_names
    dF,             \* Map::dF
    dF_names,       \* Map::dF_names
    last,           \* the last call: [op, args, outcome, oob, prev]
    ret,            \* what the last call returned
    pre,            \* y, p, g, axis and dI as they were when the last call began
    nops,           \* number of calls so far
    made,           \* the instance under construction: [kind, lmax, N, outcome]
    G,              \* Ops::G, the occultation solver: [sT, dsTdb, dsTdr]
    dotRz_result,   \* Ops::W.dotRz_result, a sequence of rows
    ocall,          \* the last call on Ops: [op, args, ret, prev, n]
    it,             \* an iterative routine at work: [routine, n, done, raised]
    ctx             \* the calls in progress, one per execution context

vars == <<lmax, N, Y00_is_unity, T, y, p, g, axis, tmp_vec, tmp_col_vec,
          tmp_vec_ptr, dI, dI_names, dF, dF_names, last, ret, pre, nops,
          made, G, dotRz_result, ocall, it, ctx>>

\* the state of the Map and of its callers
mapvars == <<lmax, N, Y00_is_unity, T, y, p, g, axis, tmp_vec, tmp_col_vec,
             tmp_vec_ptr, dI, dI_names, dF, dF_names, last, ret, pre, nops,
             ctx>>

\* the state of Ops
opsvars == <<made, G, dotRz_result, ocall>>

(***************************************************************************)
(* Exact arithmetic.                                                       *)
(***************************************************************************)
Abs(a) == IF a < 0 THEN -a ELSE a

RECURSIVE GCD(_, _)
GCD(a, b) == IF b = 0 THEN a ELSE GCD(b, a % b)

NaN == <<0, 0>>

IsNaN(a) == a[2] = 0

Norm(n, d) ==
    IF d = 0 THEN NaN
    ELSE LET k == GCD(Abs(n), Abs(d))
             s == IF d < 0 THEN -1 ELSE 1
         IN  <<(s * n) \div k, (s * d) \div k>>

RInt(k) == <<k, 1>>

RAdd(a, b) ==
    IF IsNaN(a) \/ IsNaN(b) THEN NaN
    ELSE Norm(a[1] * b[2] + b[1] * a[2], a[2] * b[2])

RNeg(a) == IF IsNaN(a) THEN NaN ELSE <<-a[1], a[2]>>

RSub(a, b) == RAdd(a, RNeg(b))

RMul(a, b) ==
    IF IsNaN(a) \/ IsNaN(b) THEN NaN
    ELSE Norm(a[1] * b[1], a[2] * b[2])

\* a / b; x / 0 is not-a-number here (the model never divides a non-zero
\* number by zero)
RDiv(a, b) ==
    IF IsNaN(a) \/ IsNaN(b) \/ b[1] = 0 THEN NaN
    ELSE Norm(a[1] * b[2], a[2] * b[1])

RGt(a, b) == ~IsNaN(a) /\ ~IsNaN(b) /\ a[1] * b[2] > b[1] * a[2]

RECURSIVE RPow(_, _)
RPow(a, k) == IF k = 0 THEN RInt(1) ELSE RMul(a, RPow(a, k - 1))

IsSquare(n) == \E k \in 0..n : k * k = n

ISqrt(n) == CHOOSE k \in 0..n : k * k = n

\* sqrt on the rationals whose root is rational; sqrt of a negative number
\* is not-a-number
RSqrt(a) ==
    IF IsNaN(a) \/ a[1] < 0 THEN NaN
    ELSE IF IsSquare(a[1]) /\ IsSquare(a[2]) THEN <<ISqrt(a[1]), ISqrt(a[2])>>
    ELSE NaN

\* sum of f[0..k]
RECURSIVE RSum(_, _)
RSum(f, k) == IF k < 0 THEN RInt(0) ELSE RAdd(RSum(f, k - 1), f[k])

ZeroVec(n) == [i \in 0..(n - 1) |-> RInt(0)]

\* dense dot product of two vectors of length n
Dot(a, b, n) == RSum([i \in 0..(n - 1) |-> RMul(a[i], b[i])], n - 1)

\* sparse matrix times dense vector: only the stored (non-zero) entries of
\* the matrix take part
RECURSIVE SpRow(_, _, _, _)
SpRow(M, v, i, k) ==
    IF k < 0 THEN RInt(0)
    ELSE IF M[i][k] = RInt(0) THEN SpRow(M, v, i, k - 1)
    ELSE RAdd(SpRow(M, v, i, k - 1), RMul(M[i][k], v[k]))

SpMatVec(M, v, n) == [i \in 0..(n - 1) |-> SpRow(M, v, i, n - 1)]

(***************************************************************************)
(* Basis (basis.h): the change-of-basis matrices, for degrees up to 2.     *)
(* Coefficients are held in the units in which the spherical harmonics are *)
(* the polynomials                                                         *)
(*   Y00 = 1; Y1-1 = y, Y10 = z, Y11 = x;                                  *)
(*   Y2-2 = xy, Y2-1 = yz, Y20 = 2 - 3x^2 - 3y^2, Y21 = xz, Y22 = x^2-y^2, *)
(* so every entry of A1 is rational.  The polynomial basis is the one      *)
(* Map::poly_basis enumerates: 1, x, z, y, x^2, xz, xy, yz, y^2.           *)
(***************************************************************************)
\* the stored entries of A1 (Ylm -> polynomial), as <<row, column, value>>
A1Entries ==
    { <<0, 0, 1>>,
      <<3, 1, 1>>, <<2, 2, 1>>, <<1, 3, 1>>,
      <<6, 4, 1>>, <<7, 5, 1>>,
      <<0, 6, 2>>, <<4, 6, -3>>, <<8, 6, -3>>,
      <<5, 7, 1>>,
      <<4, 8, 1>>, <<8, 8, -1>> }

A1At(i, j) ==
    IF \E e \in A1Entries : e[1] = i /\ e[2] = j
    THEN RInt((CHOOSE e \in A1Entries : e[1] = i /\ e[2] = j)[3])
    ELSE RInt(0)

A1Table == [i \in 0..8 |-> [j \in 0..8 |-> A1At(i, j)]]

\* Basis::A1 of a map with n coefficients
A1(n) == [i \in 0..(n - 1) |-> [j \in 0..(n - 1) |-> A1Table[i][j]]]

\* the Green's basis is 1, 2x, z, y, 3x^2, -3xz, 2xy, 3yz, y^2: A2
\* (polynomial -> Green's) is diagonal, with the inverse of these factors
A2Diag == <<RInt(1), <<1, 2>>, RInt(1), RInt(1),
            <<1, 3>>, <<-1, 3>>, <<1, 2>>, <<1, 3>>, RInt(1)>>

ATable == [i \in 0..8 |-> [j \in 0..8 |-> RMul(A2Diag[i + 1], A1Table[i][j])]]

\* Basis::A = A2 * A1 (Ylm -> Green's) of a map with n coefficients
A(n) == [i \in 0..(n - 1) |-> [j \in 0..(n - 1) |-> ATable[i][j]]]

(***************************************************************************)
(* Wigner (rotation.h): the rotation of a coefficient vector by an angle   *)
(* about the map's axis, block by block, for degrees up to 2.              *)
(***************************************************************************)
\* cosine and sine of an angle in degrees, for the multiples of 90
CosDeg(t) == LET r == t % 360
             IN  IF r = 0 THEN RInt(1) ELSE IF r = 180 THEN RInt(-1) ELSE RInt(0)

SinDeg(t) == LET r == t % 360
             IN  IF r = 90 THEN RInt(1) ELSE IF r = 270 THEN RInt(-1) ELSE RInt(0)

Delta(i, j) == IF i = j THEN RInt(1) ELSE RInt(0)

\* the cross-product matrix [u]x of u = (u[1], u[2], u[3])
Cross(u) ==
    << <<RInt(0), RNeg(u[3]), u[2]>>,
       <<u[3], RInt(0), RNeg(u[1])>>,
       <<RNeg(u[2]), u[1], RInt(0)>> >>

\* the 3x3 rotation by (cos, sin) = (c, s) about the unit vector u:
\* c I + (1 - c) u u^T + s [u]x
Rot3(c, s, u) ==
    LET X == Cross(u)
    IN  [i \in 1..3 |-> [j \in 1..3 |->
            RAdd(RAdd(RMul(c, Delta(i, j)),
                      RMul(RSub(RInt(1), c), RMul(u[i], u[j]))),
                 RMul(s, X[i][j]))]]

Mat3Mul(X, Z) ==
    [i \in 1..3 |-> [j \in 1..3 |->
        RAdd(RAdd(RMul(X[i][1], Z[1][j]), RMul(X[i][2], Z[2][j])),
             RMul(X[i][3], Z[3][j]))]]

Mat3T(X) == [i \in 1..3 |-> [j \in 1..3 |-> X[j][i]]]

\* degree 1: the coefficients of (Y1-1, Y10, Y11) are those of (y, z, x),
\* and rotate as the vector (x, y, z) does
RotBlock1(R, v) ==
    LET a == <<v[3], v[1], v[2]>>
        b == [i \in 1..3 |->
                RAdd(RAdd(RMul(R[i][1], a[1]), RMul(R[i][2], a[2])),
                     RMul(R[i][3], a[3]))]
    IN  <<b[2], b[3], b[1]>>

\* degree 2: the map c1 xy + c2 yz + c3 (2z^2 - x^2 - y^2) + c4 xz +
\* c5 (x^2 - y^2) is the quadratic form r^T Q r
QForm(v) ==
    LET h(a) == RDiv(a, RInt(2))
    IN  << <<RSub(v[5], v[3]), h(v[1]), h(v[4])>>,
           <<h(v[1]), RSub(RNeg(v[5]), v[3]), h(v[2])>>,
           <<h(v[4]), h(v[2]), RMul(RInt(2), v[3])>> >>

\* the coefficients (c1..c5) of the quadratic form r^T P r
QCoeffs(P) ==
    << RMul(RInt(2), P[1][2]),
       RMul(RInt(2), P[2][3]),
       RDiv(P[3][3], RInt(2)),
       RMul(RInt(2), P[1][3]),
       RDiv(RSub(P[1][1], P[2][2]), RInt(2)) >>

Mat3Add(X, Z) == [i \in 1..3 |-> [j \in 1..3 |-> RAdd(X[i][j], Z[i][j])]]

\* degree 2: the form rotates as R Q R^T
RotBlock2(R, v) ==
    LET Q == QForm(v)
        RQ == Mat3Mul(R, Q)
        RT == Mat3T(R)
    IN  QCoeffs(Mat3Mul(RQ, RT))

\* its derivative with respect to the angle: dR Q R^T + R Q dR^T
DRotBlock2(R, dR, v) ==
    LET Q == QForm(v)
        dRQ == Mat3Mul(dR, Q)
        RQ == Mat3Mul(R, Q)
        RT == Mat3T(R)
        dRT == Mat3T(dR)
    IN  QCoeffs(Mat3Add(Mat3Mul(dRQ, RT), Mat3Mul(RQ, dRT)))

\* the derivative of Rot3 with respect to the angle:
\* -s I + s u u^T + c [u]x
DRot3(c, s, u) ==
    LET X == Cross(u)
    IN  [i \in 1..3 |-> [j \in 1..3 |->
            RAdd(RAdd(RMul(RNeg(s), Delta(i, j)),
                      RMul(s, RMul(u[i], u[j]))),
                 RMul(c, X[i][j]))]]

Unit(k, j) == [i \in 1..k |-> IF i = j THEN RInt(1) ELSE RInt(0)]

\* Wigner::R[l] after compute(c, s) with axis u: column j is the image of
\* the j-th unit vector; R[0] is the scalar 1
WR(l, c, s, u) ==
    LET k == 2 * l + 1
        R == Rot3(c, s, u)
        cols == [j \in 1..k |->
                    IF l = 0 THEN <<RInt(1)>>
                    ELSE IF l = 1 THEN RotBlock1(R, Unit(k, j))
                    ELSE RotBlock2(R, Unit(k, j))]
    IN  [i \in 1..k |-> [j \in 1..k |-> cols[j][i]]]

\* Wigner::dRdtheta[l] after compute(c, s) with axis u
WdRdtheta(l, c, s, u) ==
    LET k == 2 * l + 1
        R == Rot3(c, s, u)
        dR == DRot3(c, s, u)
        cols == [j \in 1..k |->
                    IF l = 0 THEN <<RInt(0)>>
                    ELSE IF l = 1 THEN RotBlock1(dR, Unit(k, j))
                    ELSE DRotBlock2(R, dR, Unit(k, j))]
    IN  [i \in 1..k |-> [j \in 1..k |-> cols[j][i]]]

\* the degree of the block that holds index n
RECURSIVE DegreeOf(_, _)
DegreeOf(n, l) == IF n < (l + 1) * (l + 1) THEN l ELSE DegreeOf(n, l + 1)

\* the blockwise product: out.segment(l*l, 2l+1) = Blk[l] * v.segment(l*l, 2l+1)
BlockMul(Blk, v, lm) ==
    [n \in 0..((lm + 1) * (lm + 1) - 1) |->
        LET l == DegreeOf(n, 0)
            i == n - l * l + 1
        IN  RSum([j \in 0..(2 * l) |-> RMul(Blk[l][i][j + 1], v[l * l + j])], 2 * l)]

\* the blockwise product with a row vector on the left:
\* out.segment(l*l, 2l+1) = v.segment(l*l, 2l+1)^T * Blk[l]
BlockMulLeft(v, Blk, lm) ==
    [n \in 0..((lm + 1) * (lm + 1) - 1) |->
        LET l == DegreeOf(n, 0)
            j == n - l * l + 1
        IN  RSum([i \in 0..(2 * l) |-> RMul(v[l * l + i], Blk[l][i + 1][j])], 2 * l)]

\* Wigner::rotate(costheta, sintheta, yout): yout = R y, block by block
WRotate(c, s, u, yv, lm) ==
    BlockMul([l \in 0..lm |-> WR(l, c, s, u)], yv, lm)

(***************************************************************************)
(* The inputs the operations are called with.                              *)
(***************************************************************************)
SeqsUpTo(S, k) == UNION { [1..n -> S] : n \in 0..k }

CoeffVals == { RInt(k) : k \in 0..MaxCoeff }

\* (l, m) pairs: every valid one, and those just outside the valid ranges
LMInputs ==
    { <<l, m>> \in (0..lmax) \X (-lmax..lmax) : -l <= m /\ m <= l }
    \cup { <<-1, 0>>, <<lmax + 1, 0>> }
    \cup { <<l, -l - 1>> : l \in 0..lmax }
    \cup { <<l, l + 1>> : l \in 0..lmax }

\* flat indices: just below the range, its start, and the two just above
\* its end
IndInputs == { -1, 0, 1, N, N + 1 }

\* the values a batch assigns
BulkVals == { RInt(1), RInt(MaxCoeff) }

\* the (inds, coeffs) pairs passed to setCoeff(inds, coeffs): every pair of
\* equal sizes, and one pair for each two unequal sizes
BatchInputs ==
    { b \in SeqsUpTo(IndInputs, MaxBatch) \X SeqsUpTo(BulkVals, MaxBatch) :
        \/ Len(b[1]) = Len(b[2])
        \/ /\ \A i \in 1..Len(b[1]) : b[1][i] = 0
           /\ \A i \in 1..Len(b[2]) : b[2][i] = RInt(1) }

\* the outcomes of the accesses a batch makes beyond the end of y, if any
UBOf(inds) ==
    IF \E i \in 1..Len(inds) : inds[i] = N THEN { "silent", "abort" }
    ELSE { "silent" }

\* what a read beyond the end of y may find
JunkOf(inds) ==
    IF \E i \in 1..Len(inds) : inds[i] = N THEN { RInt(k) : k \in 0..MaxCoeff }
    ELSE { RInt(0) }

\* angles, in degrees
Thetas == { 0, 90, 180 }

\* axes passed to setAxis: a unit vector, one of norm 2, the zero vector
AxisInputs ==
    { <<RInt(1), RInt(0), RInt(0)>>,
      <<RInt(0), RInt(0), RInt(2)>>,
      <<RInt(0), RInt(0), RInt(0)>> }

\* surface points: two inside the unit disk, one on its edge, one outside
Points ==
    { <<RInt(0), RInt(0)>>, <<<<3, 5>>, RInt(0)>>, <<<<3, 5>>, <<4, 5>>>>,
      <<RInt(1), RInt(1)>> }

(***************************************************************************)
(* Map: housekeeping.                                                      *)
(***************************************************************************)
\* yhat<T>()
yhat == <<RInt(0), RInt(1), RInt(0)>>

\* Map::update(): the polynomial and Green's vectors of the coefficients yv
update(yv, n) == [p |-> SpMatVec(A1(n), yv, n), g |-> SpMatVec(A(n), yv, n)]

\* the coefficient vector Map::reset() leaves
ResetY(n, unity) == [i \in 0..(n - 1) |-> IF i = 0 /\ unity THEN RInt(1) ELSE RInt(0)]

Running == nops < MaxOps /\ last.outcome # "abort"

NoCall == [op |-> "none", args |-> <<>>, ret |-> <<>>]

\* no Ops instance and no iterative routine at work
OpsIdle ==
    /\ made = [kind |-> "none", lmax |-> 0, N |-> 0, outcome |-> "none"]
    /\ G = [sT |-> <<>>, dsTdb |-> <<>>, dsTdr |-> <<>>]
    /\ dotRz_result = <<>>
    /\ ocall = [op |-> "none", args |-> <<>>, ret |-> <<>>, prev |-> NoCall, n |-> 0]

ItIdle == it = [routine |-> "none", n |-> 0, done |-> TRUE, raised |-> FALSE]

\* the execution contexts that call into one instance
Contexts == { 1, 2 }

NoJob == [job |-> "none", pc |-> "idle", args |-> <<>>, ret |-> <<>>]

\* no call in progress
CtxIdle == ctx = [c \in Contexts |-> NoJob]

NoPrev == [op |-> "none", args |-> <<>>, y |-> <<>>]

\* the call before is kept where one rotate follows another
Called(op, args, outcome, oob) ==
    /\ last' = [op |-> op, args |-> args, outcome |-> outcome, oob |-> oob,
                prev |-> IF op = "rotate" /\ last.op = "rotate"
                         THEN [op |-> "rotate", args |-> last.args, y |-> pre.y]
                         ELSE NoPrev]
    /\ pre' = [y |-> y, p |-> p, g |-> g, axis |-> axis, dI |-> dI]
    /\ nops' = nops + 1
    /\ UNCHANGED <<opsvars, it, ctx>>

Scratch == <<tmp_vec, tmp_col_vec, tmp_vec_ptr, dI>>

\* what the constructor fixes
Config == <<lmax, N, Y00_is_unity, T, dI_names, dF, dF_names>>

\* std::to_string of an integer
Digits == <<"0", "1", "2", "3", "4", "5", "6", "7", "8", "9">>

RECURSIVE to_string(_)
to_string(k) ==
    IF k < 0 THEN "-" \o to_string(-k)
    ELSE IF k < 10 THEN Digits[k + 1]
    ELSE to_string(k \div 10) \o Digits[(k % 10) + 1]

\* the pairs (l, m) as the loops of the constructor visit them, from (l, m) on
RECURSIVE NamePairs(_, _, _)
NamePairs(l, m, lm) ==
    IF l >= lm + 1 THEN <<>>
    ELSE IF m >= l + 1 THEN NamePairs(l + 1, -(l + 1), lm)
    ELSE <<<<l, m>>>> \o NamePairs(l, m + 1, lm)

\* GradNames with m running downwards within each degree
GradNamesDescending(head, lm) ==
    LET pairs == NamePairs(0, 0, lm)
    IN  head \o [n \in 1..Len(pairs) |->
                    "Y_{" \o to_string(pairs[n][1]) \o ","
                          \o to_string(-pairs[n][2]) \o "}"]

\* the names the constructor gives the entries of a gradient: those of the
\* initializer list, then one pushed back per (l, m)
GradNames(head, lm) ==
    LET pairs == NamePairs(0, 0, lm)
    IN  head \o [n \in 1..Len(pairs) |->
                    "Y_{" \o to_string(pairs[n][1]) \o ","
                          \o to_string(pairs[n][2]) \o "}"]

\* the instantiations Map<double, double> and Map<Multi, double>
ScalarTypes == { "double", "Multi" }

\* Map::Map(lmax, Y00_is_unity), which ends with reset()
Init ==
    /\ lmax \in 0..MaxLmax
    /\ N = (lmax + 1) * (lmax + 1)
    /\ Y00_is_unity \in BOOLEAN
    /\ T \in ScalarTypes
    /\ y = ResetY(N, Y00_is_unity)
    /\ axis = yhat
    /\ p = update(y, N).p
    /\ g = update(y, N).g
    /\ tmp_vec = ZeroVec(N)
    /\ tmp_col_vec = ZeroVec(N)
    /\ tmp_vec_ptr = "uninit"
    /\ dI = ZeroVec(3 + N)
    /\ dI_names = GradNames(<<"theta", "x", "y">>, lmax)
    /\ dF = ZeroVec(4 + N)
    /\ dF_names = GradNames(<<"theta", "xo", "yo", "ro">>, lmax)
    /\ last = [op |-> "Map", args |-> <<lmax, Y00_is_unity>>,
               outcome |-> "ok", oob |-> FALSE, prev |-> NoPrev]
    /\ ret = <<>>
    /\ pre = [y |-> y, p |-> p, g |-> g, axis |-> axis, dI |-> dI]
    /\ nops = 0
    /\ CtxIdle
    /\ OpsIdle
    /\ ItIdle

\* Reset without the call of update()
ResetNoUpdate ==
    /\ Running
    /\ y' = ResetY(N, Y00_is_unity)
    /\ axis' = yhat
    /\ Called("reset", <<>>, "ok", FALSE)
    /\ ret' = <<>>
    /\ UNCHANGED <<Config, p, g, Scratch>>

\* Reset leaving the rotation axis as it is
ResetKeepAxis ==
    /\ Running
    /\ y' = ResetY(N, Y00_is_unity)
    /\ LET u == update(y', N)
       IN  p' = u.p /\ g' = u.g
    /\ Called("reset", <<>>, "ok", FALSE)
    /\ ret' = <<>>
    /\ UNCHANGED <<Config, axis, Scratch>>

\* Map::reset()
Reset ==
    /\ Running
    /\ y' = ResetY(N, Y00_is_unity)
    /\ axis' = yhat
    /\ LET u == update(y', N)
       IN  p' = u.p /\ g' = u.g
    /\ Called("reset", <<>>, "ok", FALSE)
    /\ ret' = <<>>
    /\ UNCHANGED <<Config, Scratch>>

(***************************************************************************)
(* Map: coefficient access.                                                *)
(***************************************************************************)
\* SetIdx with the degree offset left out
SetIdxNoOffset(l, m) == l * l + m

\* the index setCoeff(l, m, .) writes
SetIdx(l, m) == l * l + l + m

\* the index getCoeff(l, m) reads
GetIdx(l, m) == l * l + l + m

\* the range check of setCoeff(l, m, .) and getCoeff(l, m)
ValidLM(l, m) == (0 <= l) /\ (l <= lmax) /\ (-l <= m) /\ (m <= l)

\* Map::setCoeff(l, m, coeff)
SetCoeff(l, m, coeff) ==
    /\ Running
    /\ IF (l = 0) /\ Y00_is_unity /\ (coeff # RInt(1))
       THEN /\ Called("setCoeff", <<l, m, coeff>>, "ValueError", FALSE)
            /\ UNCHANGED <<y, p, g>>
       ELSE IF ValidLM(l, m)
       THEN /\ y' = [y EXCEPT ![SetIdx(l, m)] = coeff]
            /\ LET u == update(y', N)
               IN  p' = u.p /\ g' = u.g
            /\ Called("setCoeff", <<l, m, coeff>>, "ok", FALSE)
       ELSE /\ Called("setCoeff", <<l, m, coeff>>, "IndexError", FALSE)
            /\ UNCHANGED <<y, p, g>>
    /\ ret' = <<>>
    /\ UNCHANGED <<Config, axis, Scratch>>

\* SetLoop without the test that keeps Y_{0,0} at unity
RECURSIVE SetLoopNoUnity(_, _, _, _, _, _)
SetLoopNoUnity(i, yv, inds, coeffs, ub, oob) ==
    IF i > Len(inds)
    THEN [y |-> yv, outcome |-> "ok", oob |-> oob]
    ELSE IF (inds[i] < 0) \/ (inds[i] > N)
    THEN [y |-> yv, outcome |-> "IndexError", oob |-> oob]
    ELSE IF inds[i] = N
    THEN IF ub = "abort"
         THEN [y |-> yv, outcome |-> "abort", oob |-> TRUE]
         ELSE SetLoopNoUnity(i + 1, yv, inds, coeffs, ub, TRUE)
    ELSE SetLoopNoUnity(i + 1, [yv EXCEPT ![inds[i]] = coeffs[i]],
                        inds, coeffs, ub, oob)

\* the loop of setCoeff(inds, coeffs) from entry i on, on the coefficients
\* yv: the coefficients it leaves, how it ends, and whether it wrote beyond
\* the end of y
RECURSIVE SetLoop(_, _, _, _, _, _)
SetLoop(i, yv, inds, coeffs, ub, oob) ==
    IF i > Len(inds)
    THEN [y |-> yv, outcome |-> "ok", oob |-> oob]
    ELSE IF (inds[i] = 0) /\ Y00_is_unity /\ (coeffs[i] # RInt(1))
    THEN [y |-> yv, outcome |-> "ValueError", oob |-> oob]
    ELSE IF (inds[i] < 0) \/ (inds[i] > N)
    THEN [y |-> yv, outcome |-> "IndexError", oob |-> oob]
    ELSE IF inds[i] = N
    THEN IF ub = "abort"
         THEN [y |-> yv, outcome |-> "abort", oob |-> TRUE]
         ELSE SetLoop(i + 1, yv, inds, coeffs, ub, TRUE)
    ELSE SetLoop(i + 1, [yv EXCEPT ![inds[i]] = coeffs[i]], inds, coeffs, ub, oob)

\* Map::setCoeff(inds, coeffs)
SetCoeffBulk(inds, coeffs, ub) ==
    /\ Running
    /\ IF Len(inds) # Len(coeffs)
       THEN /\ Called("setCoeffs", <<inds, coeffs>>, "IndexError", FALSE)
            /\ UNCHANGED <<y, p, g>>
       ELSE LET r == SetLoop(1, y, inds, coeffs, ub, FALSE)
            IN  /\ y' = r.y
                /\ IF r.outcome = "ok"
                   THEN LET u == update(y', N)
                        IN  p' = u.p /\ g' = u.g
                   ELSE UNCHANGED <<p, g>>
                /\ Called("setCoeffs", <<inds, coeffs>>, r.outcome, r.oob)
    /\ ret' = <<>>
    /\ UNCHANGED <<Config, axis, Scratch>>

\* what getCoeff(l, m) returns when it returns
GetCoeffValue(l, m) == y[GetIdx(l, m)]

\* Map::getCoeff(l, m)
GetCoeff(l, m) ==
    /\ Running
    /\ IF ValidLM(l, m)
       THEN /\ ret' = <<GetCoeffValue(l, m)>>
            /\ Called("getCoeff", <<l, m>>, "ok", FALSE)
       ELSE /\ ret' = <<>>
            /\ Called("getCoeff", <<l, m>>, "IndexError", FALSE)
    /\ UNCHANGED <<Config, y, p, g, axis, Scratch>>

\* the loop of getCoeff(inds) from entry i on: the values read so far and
\* how it ends; a read beyond the end of y yields whatever lies there
RECURSIVE GetLoop(_, _, _, _, _, _)
GetLoop(i, coeffs, inds, ub, junk, oob) ==
    IF i > Len(inds)
    THEN [coeffs |-> coeffs, outcome |-> "ok", oob |-> oob]
    ELSE IF (inds[i] < 0) \/ (inds[i] > N)
    THEN [coeffs |-> coeffs, outcome |-> "IndexError", oob |-> oob]
    ELSE IF inds[i] = N
    THEN IF ub = "abort"
         THEN [coeffs |-> coeffs, outcome |-> "abort", oob |-> TRUE]
         ELSE GetLoop(i + 1, Append(coeffs, junk), inds, ub, junk, TRUE)
    ELSE GetLoop(i + 1, Append(coeffs, y[inds[i]]), inds, ub, junk, oob)

\* Map::getCoeff(inds)
GetCoeffBulk(inds, ub, junk) ==
    /\ Running
    /\ LET r == GetLoop(1, <<>>, inds, ub, junk, FALSE)
       IN  /\ ret' = IF r.outcome = "ok" THEN <<r.coeffs>> ELSE <<>>
           /\ Called("getCoeffs", <<inds>>, r.outcome, r.oob)
    /\ UNCHANGED <<Config, y, p, g, axis, Scratch>>

(***************************************************************************)
(* Map: axis and rotation.                                                 *)
(***************************************************************************)
\* the vector setAxis(new_axis) stores
Normalized(v) ==
    LET len == RSqrt(RAdd(RAdd(RMul(v[1], v[1]), RMul(v[2], v[2])),
                          RMul(v[3], v[3])))
    IN  <<RDiv(v[1], len), RDiv(v[2], len), RDiv(v[3], len)>>

\* Map::setAxis(new_axis)
SetAxis(new_axis) ==
    /\ Running
    /\ axis' = Normalized(new_axis)
    /\ Called("setAxis", <<new_axis>>, "ok", FALSE)
    /\ ret' = <<>>
    /\ UNCHANGED <<Config, y, p, g, Scratch>>

\* Map::getAxis()
GetAxis ==
    /\ Running
    /\ ret' = <<axis>>
    /\ Called("getAxis", <<>>, "ok", FALSE)
    /\ UNCHANGED <<Config, y, p, g, axis, Scratch>>

\* Rotate turning by a quarter where it should turn by a half
RotateQuarterOnly(theta_deg) ==
    /\ Running
    /\ y' = WRotate(CosDeg(IF theta_deg = 180 THEN 90 ELSE theta_deg),
                    SinDeg(IF theta_deg = 180 THEN 90 ELSE theta_deg),
                    axis, y, lmax)
    /\ LET u == update(y', N)
       IN  p' = u.p /\ g' = u.g
    /\ Called("rotate", <<theta_deg>>, "ok", FALSE)
    /\ ret' = <<>>
    /\ UNCHANGED <<Config, axis, Scratch>>

\* Rotate without the call of update()
RotateNoUpdate(theta_deg) ==
    /\ Running
    /\ y' = WRotate(CosDeg(theta_deg), SinDeg(theta_deg), axis, y, lmax)
    /\ Called("rotate", <<theta_deg>>, "ok", FALSE)
    /\ ret' = <<>>
    /\ UNCHANGED <<Config, p, g, axis, Scratch>>

\* Map::rotate(theta_deg)
Rotate(theta_deg) ==
    /\ Running
    /\ y' = WRotate(CosDeg(theta_deg), SinDeg(theta_deg), axis, y, lmax)
    /\ LET u == update(y', N)
       IN  p' = u.p /\ g' = u.g
    /\ Called("rotate", <<theta_deg>>, "ok", FALSE)
    /\ ret' = <<>>
    /\ UNCHANGED <<Config, axis, Scratch>>

\* Map::getY()
GetY ==
    /\ Running
    /\ ret' = <<y>>
    /\ Called("getY", <<>>, "ok", FALSE)
    /\ UNCHANGED <<Config, y, p, g, axis, Scratch>>

\* Map::getP()
GetP ==
    /\ Running
    /\ ret' = <<p>>
    /\ Called("getP", <<>>, "ok", FALSE)
    /\ UNCHANGED <<Config, y, p, g, axis, Scratch>>

\* Map::getG()
GetG ==
    /\ Running
    /\ ret' = <<g>>
    /\ Called("getG", <<>>, "ok", FALSE)
    /\ UNCHANGED <<Config, y, p, g, axis, Scratch>>

(***************************************************************************)
(* Map: intensity.                                                         *)
(***************************************************************************)
\* a number with its derivatives with respect to x and y (ADScalar<T, 2>)
AD(v, dx, dy) == [v |-> v, dx |-> dx, dy |-> dy]

ADConst(v) == AD(v, RInt(0), RInt(0))

ADMul(a, b) ==
    AD(RMul(a.v, b.v),
       RAdd(RMul(a.dx, b.v), RMul(a.v, b.dx)),
       RAdd(RMul(a.dy, b.v), RMul(a.v, b.dy)))

\* pow(a, k) for an integer k >= 1
ADPow(a, k) ==
    LET f == RMul(RInt(k), RPow(a.v, k - 1))
    IN  AD(RPow(a.v, k), RMul(a.dx, f), RMul(a.dy, f))

\* sqrt(1 - x0 * x0 - y0 * y0)
ADz0(x0, y0) ==
    LET z == RSqrt(RSub(RSub(RInt(1), RMul(x0.v, x0.v)), RMul(y0.v, y0.v)))
    IN  AD(z, RDiv(RNeg(x0.v), z), RDiv(RNeg(y0.v), z))

\* the (l, m) pairs in the order the loops over l and m visit them
RECURSIVE LoopPairs(_, _, _)
LoopPairs(l, m, lm) ==
    IF l > lm THEN <<>>
    ELSE IF m > l THEN LoopPairs(l + 1, -(l + 1), lm)
    ELSE <<<<l, m>>>> \o LoopPairs(l, m + 1, lm)

\* one entry of Map::poly_basis
PolyTerm(l, m, x0, y0, z0) ==
    LET mu == l - m
        nu == l + m
    IN  IF (nu % 2) = 0
        THEN IF (mu > 0) /\ (nu > 0)
             THEN ADMul(ADPow(x0, mu \div 2), ADPow(y0, nu \div 2))
             ELSE IF mu > 0 THEN ADPow(x0, mu \div 2)
             ELSE IF nu > 0 THEN ADPow(y0, nu \div 2)
             ELSE ADConst(RInt(1))
        ELSE IF (mu > 1) /\ (nu > 1)
             THEN ADMul(ADMul(ADPow(x0, (mu - 1) \div 2),
                              ADPow(y0, (nu - 1) \div 2)), z0)
             ELSE IF mu > 1 THEN ADMul(ADPow(x0, (mu - 1) \div 2), z0)
             ELSE IF nu > 1 THEN ADMul(ADPow(y0, (nu - 1) \div 2), z0)
             ELSE z0

\* Map::poly_basis(x0, y0, basis): entry n is the n-th pair the loops visit
poly_basis(x0, y0) ==
    LET pairs == LoopPairs(0, 0, lmax)
        z0 == ADz0(x0, y0)
    IN  [n \in 0..(Len(pairs) - 1) |->
            PolyTerm(pairs[n + 1][1], pairs[n + 1][2], x0, y0, z0)]

\* row vector times sparse matrix: (v * M)(j)
RECURSIVE SpCol(_, _, _, _)
SpCol(v, M, j, k) ==
    IF k < 0 THEN RInt(0)
    ELSE IF M[k][j] = RInt(0) THEN SpCol(v, M, j, k - 1)
    ELSE RAdd(SpCol(v, M, j, k - 1), RMul(v[k], M[k][j]))

SpVecMat(v, M, n) == [j \in 0..(n - 1) |-> SpCol(v, M, j, n - 1)]

\* the vector tmp_vec_ptr points at, given the new tmp_vec
Pointee(ptr, tv) == IF ptr = "p" THEN p ELSE tv

\* OutOfDisk taking the edge of the disk as outside
OutOfDiskClosed(x0, y0) == ~RGt(RInt(1), RAdd(RMul(x0, x0), RMul(y0, y0)))

\* x0 * x0 + y0 * y0 > 1.0
OutOfDisk(x0, y0) == RGt(RAdd(RMul(x0, x0), RMul(y0, y0)), RInt(1))

\* Map::evaluate(theta_deg, x0_, y0_, false)
EvaluatePlain(theta_deg, x0, y0) ==
    /\ IF theta_deg = 0
       THEN /\ tmp_vec_ptr' = "p"
            /\ UNCHANGED tmp_vec
       ELSE /\ tmp_vec' = SpMatVec(A1(N),
                              WRotate(CosDeg(theta_deg), SinDeg(theta_deg),
                                      axis, y, lmax), N)
            /\ tmp_vec_ptr' = "tmp_vec"
    /\ IF OutOfDisk(x0, y0)
       THEN /\ ret' = <<NaN>>
            /\ UNCHANGED tmp_col_vec
       ELSE /\ LET basis == poly_basis(ADConst(x0), ADConst(y0))
               IN  tmp_col_vec' = [n \in 0..(N - 1) |-> basis[n].v]
            /\ ret' = <<Dot(tmp_col_vec', Pointee(tmp_vec_ptr', tmp_vec'), N)>>
    /\ UNCHANGED dI

\* Map::evaluate_with_gradient(theta_deg, x0_, y0_); the derivative with
\* respect to theta is held in units of pi / 180
EvaluateWithGradient(theta_deg, x0, y0) ==
    LET c == CosDeg(theta_deg)
        s == SinDeg(theta_deg)
        R == [l \in 0..lmax |-> WR(l, c, s, axis)]
        dRdtheta == [l \in 0..lmax |-> WdRdtheta(l, c, s, axis)]
    IN  /\ IF theta_deg = 0
           THEN /\ tmp_vec_ptr' = "p"
                /\ UNCHANGED tmp_vec
           ELSE /\ tmp_vec' = SpMatVec(A1(N), BlockMul(R, y, lmax), N)
                /\ tmp_vec_ptr' = "tmp_vec"
        /\ IF OutOfDisk(x0, y0)
           THEN /\ ret' = <<NaN>>
                /\ UNCHANGED <<tmp_col_vec, dI>>
           ELSE LET basis == poly_basis(AD(x0, RInt(1), RInt(0)),
                                        AD(y0, RInt(0), RInt(1)))
                    ptr == Pointee(tmp_vec_ptr', tmp_vec')
                    col == [n \in 0..(N - 1) |-> basis[n].v]
                    colA1 == SpVecMat(col, A1(N), N)
                    dY == IF theta_deg = 0 THEN colA1
                          ELSE BlockMulLeft(colA1, R, lmax)
                    foo == BlockMul(dRdtheta, y, lmax)
                IN  /\ tmp_col_vec' = col
                    /\ dI' = [k \in 0..(2 + N) |->
                                IF k = 0 THEN Dot(colA1, foo, N)
                                ELSE IF k = 1
                                THEN Dot([n \in 0..(N - 1) |-> basis[n].dx], ptr, N)
                                ELSE IF k = 2
                                THEN Dot([n \in 0..(N - 1) |-> basis[n].dy], ptr, N)
                                ELSE dY[k - 3]]
                    /\ ret' = <<Dot(col, ptr, N)>>

\* EvaluateWithGradientMulti throwing only after the gradient is computed
EvaluateWithGradientMultiLate(theta_deg, x0, y0) ==
    EvaluateWithGradient(theta_deg, x0, y0)

\* Map<Multi, double>::evaluate_with_gradient(theta_deg, x0_, y0_), which
\* throws at once
EvaluateWithGradientMulti(theta_deg, x0, y0) ==
    /\ ret' = <<>>
    /\ UNCHANGED Scratch

\* Evaluate rotating the map itself instead of the scratch copy
EvaluateInPlace(theta_deg, x0, y0, compute_gradient) ==
    /\ Running
    /\ IF compute_gradient
       THEN IF T = "Multi"
            THEN EvaluateWithGradientMulti(theta_deg, x0, y0)
            ELSE EvaluateWithGradient(theta_deg, x0, y0)
       ELSE EvaluatePlain(theta_deg, x0, y0)
    /\ Called("evaluate", <<theta_deg, x0, y0, compute_gradient>>,
              IF compute_gradient /\ T = "Multi" THEN "NotImplementedError" ELSE "ok",
              FALSE)
    /\ y' = IF theta_deg = 0 THEN y
            ELSE WRotate(CosDeg(theta_deg), SinDeg(theta_deg), axis, y, lmax)
    /\ UNCHANGED <<Config, p, g, axis>>

\* Map::evaluate(theta_deg, x0_, y0_, compute_gradient)
Evaluate(theta_deg, x0, y0, compute_gradient) ==
    /\ Running
    /\ IF compute_gradient
       THEN IF T = "Multi"
            THEN EvaluateWithGradientMulti(theta_deg, x0, y0)
            ELSE EvaluateWithGradient(theta_deg, x0, y0)
       ELSE EvaluatePlain(theta_deg, x0, y0)
    /\ Called("evaluate", <<theta_deg, x0, y0, compute_gradient>>,
              IF compute_gradient /\ T = "Multi" THEN "NotImplementedError" ELSE "ok",
              FALSE)
    /\ UNCHANGED <<Config, y, p, g, axis>>

(***************************************************************************)
(* Ops: construction.  The constructors of Map and Ops build a Basis, which *)
(* is where the degree is checked.                                         *)
(***************************************************************************)
\* the highest degree supported
STARRY_MAX_LMAX == 50

\* degrees passed to a constructor
LmaxInputs == { -1, STARRY_MAX_LMAX, STARRY_MAX_LMAX + 1 } \cup (0..MaxLmax)

\* Basis::Basis(lmax) succeeds
BasisOK(l) == 0 <= l /\ l <= STARRY_MAX_LMAX

Unbuilt == made.kind = "none"

\* ConstructMap without the Basis member
ConstructMapNoBasis(lmax_in, unity) ==
    /\ Unbuilt
    /\ made' = [kind |-> "Map", lmax |-> lmax_in,
                N |-> (lmax_in + 1) * (lmax_in + 1), outcome |-> "ok"]
    /\ ocall' = [op |-> "Map", args |-> <<lmax_in, unity>>, ret |-> <<>>,
                 prev |-> NoCall, n |-> 0]
    /\ UNCHANGED <<mapvars, G, dotRz_result, it>>

\* Map::Map(lmax, Y00_is_unity) up to the construction of its members: B is
\* built in the initializer list, before the body and its reset() run
ConstructMap(lmax_in, unity) ==
    /\ Unbuilt
    /\ made' = [kind |-> "Map", lmax |-> lmax_in,
                N |-> (lmax_in + 1) * (lmax_in + 1),
                outcome |-> IF BasisOK(lmax_in) THEN "ok" ELSE "error"]
    /\ ocall' = [op |-> "Map", args |-> <<lmax_in, unity>>, ret |-> <<>>,
                 prev |-> NoCall, n |-> 0]
    /\ UNCHANGED <<mapvars, G, dotRz_result, it>>

\* the unocculted solution vector, in units of pi, over the basis of A
rTTable == <<RInt(1), RInt(0), <<2, 3>>, RInt(0), <<3, 4>>, RInt(0), RInt(0),
             RInt(0), <<1, 4>>>>

rT(n) == [k \in 0..(n - 1) |-> rTTable[k + 1]]

\* Ops::Ops(lmax, 0, 0)
ConstructOps(lmax_in) ==
    /\ Unbuilt
    /\ LET ok == BasisOK(lmax_in)
           n == (lmax_in + 1) * (lmax_in + 1)
       IN  /\ made' = [kind |-> "Ops", lmax |-> lmax_in, N |-> n,
                       outcome |-> IF ok THEN "ok" ELSE "error"]
           /\ G' = IF ok /\ lmax_in <= MaxLmax
                   THEN [sT |-> ZeroVec(n), dsTdb |-> ZeroVec(n), dsTdr |-> ZeroVec(n)]
                   ELSE G
    /\ ocall' = [op |-> "Ops", args |-> <<lmax_in>>, ret |-> <<>>,
                 prev |-> NoCall, n |-> 0]
    /\ UNCHANGED <<mapvars, dotRz_result, it>>

\* a usable Ops instance of a degree within the bound of the model
OpsRunning ==
    /\ made.kind = "Ops" /\ made.outcome = "ok"
    /\ made.lmax <= MaxLmax
    /\ ocall.n < MaxOps

\* the call before is kept where one dotRz follows another
OCalled(op, args, retv) ==
    ocall' = [op |-> op, args |-> args, ret |-> retv,
              prev |-> IF op = "dotRz" /\ ocall.op = "dotRz"
                       THEN [op |-> ocall.op, args |-> ocall.args, ret |-> ocall.ret]
                       ELSE NoCall,
              n |-> ocall.n + 1]

(***************************************************************************)
(* Ops: the occultation solver G, as the boundary policy describes it.     *)
(***************************************************************************)
\* impact parameters and occultor radii
Bs == { RInt(k) : k \in 0..3 }

Rs == { RInt(k) : k \in 0..2 }

RGe(a, b) == ~RGt(b, a)

\* Branch with the full-occultation test strict
BranchFullStrict(b, r) ==
    IF r = RInt(0) THEN "none"
    ELSE IF RGe(b, RAdd(RInt(1), r)) THEN "none"
    ELSE IF RGt(RSub(r, RInt(1)), b) THEN "full"
    ELSE "partial"

\* Branch with the no-overlap test strict
BranchStrict(b, r) ==
    IF r = RInt(0) THEN "none"
    ELSE IF RGt(b, RAdd(RInt(1), r)) THEN "none"
    ELSE IF RGe(RSub(r, RInt(1)), b) THEN "full"
    ELSE "partial"

\* the branch G.compute(b, r) takes
Branch(b, r) ==
    IF r = RInt(0) THEN "none"
    ELSE IF RGe(b, RAdd(RInt(1), r)) THEN "none"
    ELSE IF RGe(RSub(r, RInt(1)), b) THEN "full"
    ELSE "partial"

\* the general algorithm, whose values are not rational: a stand-in that,
\* like it, depends on b and r only, with its derivatives
General(b, r, n) ==
    [sT    |-> [k \in 0..(n - 1) |->
                  RSub(rTTable[k + 1], RAdd(RMul(RInt(k + 1), r), b))],
     dsTdb |-> [k \in 0..(n - 1) |-> RInt(-1)],
     dsTdr |-> [k \in 0..(n - 1) |-> RInt(-(k + 1))]]

\* G.compute<GRADIENT>(b, r) on a solver in state g0
Compute(g0, b, r, gradient, n) ==
    LET br == Branch(b, r)
        gen == General(b, r, n)
        sol == IF br = "none" THEN rT(n)
               ELSE IF br = "full"
               THEN [k \in 0..(n - 1) |-> IF k = 0 THEN rTTable[1] ELSE RInt(0)]
               ELSE gen.sT
    IN  [sT    |-> sol,
         dsTdb |-> IF ~gradient THEN g0.dsTdb
                   ELSE IF br = "partial" THEN gen.dsTdb ELSE ZeroVec(n),
         dsTdr |-> IF ~gradient THEN g0.dsTdr
                   ELSE IF br = "partial" THEN gen.dsTdr ELSE ZeroVec(n)]

\* the solver after the loop of sT over b(from), .., b(npts)
RECURSIVE STLoop(_, _, _, _, _, _)
STLoop(i, g0, b, r, gradient, n) ==
    IF i > Len(b) THEN g0
    ELSE STLoop(i + 1, Compute(g0, b[i], r, gradient, n), b, r, gradient, n)

\* SolveST copying each row before the solver has computed it
SolveSTStale(b, r) ==
    /\ OpsRunning
    /\ G' = STLoop(1, G, b, r, FALSE, made.N)
    /\ OCalled("sT", <<b, r>>,
               [i \in 1..Len(b) |->
                   IF i = 1 THEN G.sT
                   ELSE Compute(G, b[i - 1], r, FALSE, made.N).sT])
    /\ UNCHANGED <<mapvars, made, dotRz_result, it>>

\* Ops.sT(b, r)
SolveST(b, r) ==
    /\ OpsRunning
    /\ G' = STLoop(1, G, b, r, FALSE, made.N)
    /\ OCalled("sT", <<b, r>>,
               [i \in 1..Len(b) |-> Compute(G, b[i], r, FALSE, made.N).sT])
    /\ UNCHANGED <<mapvars, made, dotRz_result, it>>

\* upstream adjoints, one row per impact parameter
Upstreams(n) == { [k \in 0..(n - 1) |-> RInt(1)],
                  [k \in 0..(n - 1) |-> RInt(k - 1)] }

\* SolveSTGrad assigning br at each sample instead of adding to it
SolveSTGradNoSum(b, r, bsT) ==
    /\ OpsRunning
    /\ G' = STLoop(1, G, b, r, TRUE, made.N)
    /\ LET c == [i \in 1..Len(b) |-> Compute(G, b[i], r, TRUE, made.N)]
           bb == [i \in 1..Len(b) |-> Dot(c[i].dsTdb, bsT[i], made.N)]
           br == IF Len(b) = 0 THEN RInt(0)
                 ELSE Dot(c[Len(b)].dsTdr, bsT[Len(b)], made.N)
       IN  OCalled("sT_grad", <<b, r, bsT>>, <<bb, br>>)
    /\ UNCHANGED <<mapvars, made, dotRz_result, it>>

\* Ops.sT(b, r, bsT): bb and br
SolveSTGrad(b, r, bsT) ==
    /\ OpsRunning
    /\ G' = STLoop(1, G, b, r, TRUE, made.N)
    /\ LET c == [i \in 1..Len(b) |-> Compute(G, b[i], r, TRUE, made.N)]
           bb == [i \in 1..Len(b) |-> Dot(c[i].dsTdb, bsT[i], made.N)]
           br == RSum([i \in 0..(Len(b) - 1) |->
                          Dot(c[i + 1].dsTdr, bsT[i + 1], made.N)], Len(b) - 1)
       IN  OCalled("sT_grad", <<b, r, bsT>>, <<bb, br>>)
    /\ UNCHANGED <<mapvars, made, dotRz_result, it>>

(***************************************************************************)
(* Ops: the Z-rotation operator W.dotRz.                                   *)
(***************************************************************************)
zhat == <<RInt(0), RInt(0), RInt(1)>>

\* a row of coefficients times the Z-rotation by theta degrees
DotRzRow(row, theta_deg) ==
    BlockMulLeft(row, [l \in 0..made.lmax |->
                          WR(l, CosDeg(theta_deg), SinDeg(theta_deg), zhat)],
                 made.lmax)

\* W.dotRz(M, theta): one row per angle, a single row of M serving them all
DotRzRows(M, theta) ==
    [i \in 1..Len(theta) |->
        DotRzRow(IF Len(M) = 1 THEN M[1] ELSE M[i], theta[i])]

\* rows of coefficients passed to dotRz
RowInputs(n) == { [k \in 0..(n - 1) |-> RInt(k + 1)],
                  [k \in 0..(n - 1) |-> IF k = n - 1 THEN RInt(1) ELSE RInt(0)] }

\* Ops.dotRz(M, theta)
DotRz(M, theta) ==
    /\ OpsRunning
    /\ dotRz_result' = DotRzRows(M, theta)
    /\ OCalled("dotRz", <<M, theta>>, dotRz_result')
    /\ UNCHANGED <<mapvars, made, G, it>>

\* Ops.dotRz(M, theta) with M the result of the dotRz call before
DotRzAgain(theta) ==
    /\ ocall.op = "dotRz"
    /\ Len(theta) = Len(ocall.ret)
    /\ DotRz(ocall.ret, theta)

(***************************************************************************)
(* The specification.                                                      *)
(***************************************************************************)
Next ==
    \/ Reset
    \/ \E lm \in LMInputs, coeff \in CoeffVals : SetCoeff(lm[1], lm[2], coeff)
    \/ \E b \in BatchInputs :
          \E ub \in UBOf(b[1]) : SetCoeffBulk(b[1], b[2], ub)
    \/ \E lm \in LMInputs : GetCoeff(lm[1], lm[2])
    \/ \E inds \in SeqsUpTo(IndInputs, MaxBatch) :
          \E ub \in UBOf(inds), junk \in JunkOf(inds) : GetCoeffBulk(inds, ub, junk)
    \/ \E new_axis \in AxisInputs : SetAxis(new_axis)
    \/ GetAxis
    \/ \E theta_deg \in Thetas : Rotate(theta_deg)
    \/ GetY
    \/ GetP
    \/ GetG
    \/ \E theta_deg \in Thetas, pt \in Points, compute_gradient \in BOOLEAN :
          Evaluate(theta_deg, pt[1], pt[2], compute_gradient)

Spec == Init /\ [][Next]_vars

\* batches of impact parameters
BVecs == SeqsUpTo(Bs, MaxBatch)

\* a map of degree 0 that is left alone
MapIdle ==
    /\ lmax = 0
    /\ N = 1
    /\ Y00_is_unity = FALSE
    /\ T = "double"
    /\ y = ResetY(N, Y00_is_unity)
    /\ axis = yhat
    /\ p = update(y, N).p
    /\ g = update(y, N).g
    /\ tmp_vec = ZeroVec(N)
    /\ tmp_col_vec = ZeroVec(N)
    /\ tmp_vec_ptr = "uninit"
    /\ dI = ZeroVec(3 + N)
    /\ dI_names = GradNames(<<"theta", "x", "y">>, lmax)
    /\ dF = ZeroVec(4 + N)
    /\ dF_names = GradNames(<<"theta", "xo", "yo", "ro">>, lmax)
    /\ last = [op |-> "Map", args |-> <<lmax, Y00_is_unity>>,
               outcome |-> "ok", oob |-> FALSE, prev |-> NoPrev]
    /\ ret = <<>>
    /\ pre = [y |-> y, p |-> p, g |-> g, axis |-> axis, dI |-> dI]
    /\ nops = 0
    /\ CtxIdle

OpsInit == MapIdle /\ OpsIdle /\ ItIdle

OpsNext ==
    \/ \E l \in LmaxInputs, unity \in BOOLEAN : ConstructMap(l, unity)
    \/ \E l \in LmaxInputs : ConstructOps(l)
    \/ \E b \in BVecs, r \in Rs : SolveST(b, r)
    \/ \E b \in BVecs, r \in Rs :
          \E bsT \in [1..Len(b) -> Upstreams(made.N)] : SolveSTGrad(b, r, bsT)
    \/ \E M \in SeqsUpTo(RowInputs(made.N), MaxBatch) \ { <<>> } :
          \E theta \in SeqsUpTo(Thetas, MaxBatch) :
              (Len(M) = 1 \/ Len(M) = Len(theta)) /\ DotRz(M, theta)
    \/ \E theta \in SeqsUpTo(Thetas, MaxBatch) : DotRzAgain(theta)

OpsSpec == OpsInit /\ [][OpsNext]_vars

\* axes a map can have been given by setAxis
GroupAxes == { yhat, zhat }

\* 0, 1, .., n - 1 as a sequence of indices
AllInds(n) == [i \in 1..n |-> i - 1]

\* a map after construction, setAxis and a setCoeff(inds, coeffs) that gave
\* every coefficient a value
GroupInit ==
    /\ lmax \in 0..MaxLmax
    /\ N = (lmax + 1) * (lmax + 1)
    /\ Y00_is_unity = FALSE
    /\ T = "double"
    /\ y = [k \in 0..(N - 1) |-> RInt(k + 1)]
    /\ axis \in GroupAxes
    /\ p = update(y, N).p
    /\ g = update(y, N).g
    /\ tmp_vec = ZeroVec(N)
    /\ tmp_col_vec = ZeroVec(N)
    /\ tmp_vec_ptr = "uninit"
    /\ dI = ZeroVec(3 + N)
    /\ dI_names = GradNames(<<"theta", "x", "y">>, lmax)
    /\ dF = ZeroVec(4 + N)
    /\ dF_names = GradNames(<<"theta", "xo", "yo", "ro">>, lmax)
    /\ last = [op |-> "setCoeffs",
               args |-> <<AllInds(N), [i \in 1..N |-> y[i - 1]]>>,
               outcome |-> "ok", oob |-> FALSE, prev |-> NoPrev]
    /\ ret = <<>>
    /\ pre = [y |-> ResetY(N, Y00_is_unity),
              p |-> update(ResetY(N, Y00_is_unity), N).p,
              g |-> update(ResetY(N, Y00_is_unity), N).g,
              axis |-> axis, dI |-> dI]
    /\ nops = 0
    /\ CtxIdle
    /\ OpsIdle
    /\ ItIdle

\* rotations of the map, or of rows of coefficients through Ops
GroupNext ==
    \/ \E theta_deg \in Thetas : Unbuilt /\ Rotate(theta_deg)
    \/ nops = 0 /\ axis = yhat /\ ConstructOps(lmax)
    \/ \E M \in SeqsUpTo(RowInputs(made.N), MaxBatch) \ { <<>> } :
          \E theta \in SeqsUpTo(Thetas, MaxBatch) :
              (Len(M) = 1 \/ Len(M) = Len(theta)) /\ DotRz(M, theta)
    \/ \E theta \in SeqsUpTo(Thetas, MaxBatch) : DotRzAgain(theta)

GroupSpec == GroupInit /\ [][GroupNext]_vars

(***************************************************************************)
(* The iterative routines of the solver: each adds terms until one falls   *)
(* below machine epsilon or its count of iterations reaches the cap.       *)
(***************************************************************************)
\* max iterations in elliptic integrals
STARRY_ELLIP_MAX_ITER == 200

\* max iterations in computing the M & N integrals
STARRY_MN_MAX_ITER == 100

\* max iterations in computing the I & J integrals
STARRY_IJ_MAX_ITER == 200

Routines == { "ellip", "MN", "IJ" }

MaxIter(routine) ==
    IF routine = "ellip" THEN STARRY_ELLIP_MAX_ITER
    ELSE IF routine = "MN" THEN STARRY_MN_MAX_ITER
    ELSE STARRY_IJ_MAX_ITER

IterInit ==
    /\ MapIdle
    /\ OpsIdle
    /\ it \in { [routine |-> r, n |-> 0, done |-> FALSE, raised |-> FALSE] :
                r \in Routines }

\* IterStep without the cap
IterStepUncapped(small) ==
    /\ ~it.done
    /\ it' = IF small THEN [it EXCEPT !.done = TRUE]
             ELSE [it EXCEPT !.n = it.n + 1]
    /\ UNCHANGED <<mapvars, opsvars>>

\* one pass of the loop; small: the term fell below machine epsilon
IterStep(small) ==
    /\ ~it.done
    /\ it' = IF it.n >= MaxIter(it.routine) \/ small
             THEN [it EXCEPT !.done = TRUE]
             ELSE [it EXCEPT !.n = it.n + 1]
    /\ UNCHANGED <<mapvars, opsvars>>

IterNext == \E small \in BOOLEAN : IterStep(small)

\* the routine runs to completion: nothing suspends it
IterSpec == IterInit /\ [][IterNext]_vars /\ WF_vars(IterNext)

(***************************************************************************)
(* Two execution contexts calling into the same Map and the same Ops.  The *)
(* scratch vectors are members of the instance, so that the calls of both  *)
(* contexts read and write the same ones; a call proceeds statement by      *)
(* statement and the other context may run between any two of them.        *)
(***************************************************************************)
\* a map that holds coefficients and a solver, with no call in progress
RaceInit ==
    /\ lmax \in 0..MaxLmax
    /\ N = (lmax + 1) * (lmax + 1)
    /\ Y00_is_unity = FALSE
    /\ T = "double"
    /\ y = [k \in 0..(N - 1) |-> RInt(k + 1)]
    /\ axis = yhat
    /\ p = update(y, N).p
    /\ g = update(y, N).g
    /\ tmp_vec = ZeroVec(N)
    /\ tmp_col_vec = ZeroVec(N)
    /\ tmp_vec_ptr = "uninit"
    /\ dI = ZeroVec(3 + N)
    /\ dI_names = GradNames(<<"theta", "x", "y">>, lmax)
    /\ dF = ZeroVec(4 + N)
    /\ dF_names = GradNames(<<"theta", "xo", "yo", "ro">>, lmax)
    /\ last = [op |-> "setCoeffs",
               args |-> <<AllInds(N), [i \in 1..N |-> y[i - 1]]>>,
               outcome |-> "ok", oob |-> FALSE, prev |-> NoPrev]
    /\ ret = <<>>
    /\ pre = [y |-> ResetY(N, Y00_is_unity),
              p |-> update(ResetY(N, Y00_is_unity), N).p,
              g |-> update(ResetY(N, Y00_is_unity), N).g,
              axis |-> axis, dI |-> dI]
    /\ nops = 0
    /\ CtxIdle
    /\ made = [kind |-> "Ops", lmax |-> lmax, N |-> N, outcome |-> "ok"]
    /\ G = [sT |-> ZeroVec(N), dsTdb |-> ZeroVec(N), dsTdr |-> ZeroVec(N)]
    /\ dotRz_result = <<>>
    /\ ocall = [op |-> "Ops", args |-> <<lmax>>, ret |-> <<>>,
                prev |-> NoCall, n |-> 0]
    /\ ItIdle

\* what a step of a call leaves alone besides the scratch state
RaceFrame == <<Config, y, p, g, axis, dI, last, ret, pre, nops,
               made, dotRz_result, ocall, it>>

At(c, job, pc) == ctx[c].job = job /\ ctx[c].pc = pc

\* context c calls evaluate(theta_deg, x0, y0, false)
BeginEvaluate(c, theta_deg, x0, y0) ==
    /\ ctx[c].pc = "idle"
    /\ ctx' = [ctx EXCEPT ![c] = [job |-> "evaluate", pc |-> "rotate",
                                  args |-> <<theta_deg, x0, y0>>, ret |-> <<>>]]
    /\ UNCHANGED <<RaceFrame, tmp_vec, tmp_col_vec, tmp_vec_ptr, G>>

\* Map::evaluate: rotate the map into view
EvalRotate(c) ==
    /\ At(c, "evaluate", "rotate")
    /\ LET theta_deg == ctx[c].args[1]
       IN  IF theta_deg = 0
           THEN /\ tmp_vec_ptr' = "p"
                /\ UNCHANGED tmp_vec
           ELSE /\ tmp_vec' = SpMatVec(A1(N),
                                  WRotate(CosDeg(theta_deg), SinDeg(theta_deg),
                                          axis, y, lmax), N)
                /\ tmp_vec_ptr' = "tmp_vec"
    /\ ctx' = [ctx EXCEPT ![c].pc = "basis"]
    /\ UNCHANGED <<RaceFrame, tmp_col_vec, G>>

\* Map::evaluate: the disk test and the polynomial basis
EvalBasis(c) ==
    /\ At(c, "evaluate", "basis")
    /\ LET x0 == ctx[c].args[2]
           y0 == ctx[c].args[3]
       IN  IF OutOfDisk(x0, y0)
           THEN /\ ctx' = [ctx EXCEPT ![c].pc = "done", ![c].ret = <<NaN>>]
                /\ UNCHANGED tmp_col_vec
           ELSE /\ LET basis == poly_basis(ADConst(x0), ADConst(y0))
                   IN  tmp_col_vec' = [n \in 0..(N - 1) |-> basis[n].v]
                /\ ctx' = [ctx EXCEPT ![c].pc = "dot"]
    /\ UNCHANGED <<RaceFrame, tmp_vec, tmp_vec_ptr, G>>

\* Map::evaluate: return tmp_col_vec.dot(*tmp_vec_ptr)
EvalDot(c) ==
    /\ At(c, "evaluate", "dot")
    /\ ctx' = [ctx EXCEPT ![c].pc = "done",
                          ![c].ret = <<Dot(tmp_col_vec,
                                           Pointee(tmp_vec_ptr, tmp_vec), N)>>]
    /\ UNCHANGED <<RaceFrame, tmp_vec, tmp_col_vec, tmp_vec_ptr, G>>

\* context c starts a row of sT for (b, r)
BeginRow(c, b, r) ==
    /\ ctx[c].pc = "idle"
    /\ ctx' = [ctx EXCEPT ![c] = [job |-> "sT", pc |-> "compute",
                                  args |-> <<b, r>>, ret |-> <<>>]]
    /\ UNCHANGED <<RaceFrame, tmp_vec, tmp_col_vec, tmp_vec_ptr, G>>

\* Ops.sT: ops.G.compute(b(n), r)
RowCompute(c) ==
    /\ At(c, "sT", "compute")
    /\ G' = Compute(G, ctx[c].args[1], ctx[c].args[2], FALSE, made.N)
    /\ ctx' = [ctx EXCEPT ![c].pc = "copy"]
    /\ UNCHANGED <<RaceFrame, tmp_vec, tmp_col_vec, tmp_vec_ptr>>

\* Ops.sT: sT.row(n) = ops.G.sT
RowCopy(c) ==
    /\ At(c, "sT", "copy")
    /\ ctx' = [ctx EXCEPT ![c].pc = "done", ![c].ret = <<G.sT>>]
    /\ UNCHANGED <<RaceFrame, tmp_vec, tmp_col_vec, tmp_vec_ptr, G>>

RaceNext ==
    \E c \in Contexts :
        \/ \E theta_deg \in Thetas, pt \in Points :
              BeginEvaluate(c, theta_deg, pt[1], pt[2])
        \/ EvalRotate(c)
        \/ EvalBasis(c)
        \/ EvalDot(c)
        \/ \E b \in Bs, r \in Rs : BeginRow(c, b, r)
        \/ RowCompute(c)
        \/ RowCopy(c)

RaceSpec == RaceInit /\ [][RaceNext]_vars

(***************************************************************************)
(* Properties.                                                             *)
(***************************************************************************)
\* the valid (l, m) pairs of the map
Pairs == { lm \in (0..lmax) \X (-lmax..lmax) : -lm[1] <= lm[2] /\ lm[2] <= lm[1] }

Raised == last.outcome \in { "IndexError", "ValueError" }

SameMap == y = pre.y /\ p = pre.p /\ g = pre.g /\ axis = pre.axis

\* C1: in every state the derived vectors are those of the current
\* coefficients, p = A1 y and g = A y, so no read sees a stale p or g.
C1_CacheCoherent ==
    /\ p = update(y, N).p
    /\ g = update(y, N).g

\* C2: a call that raises IndexError or ValueError leaves y, p, g and the
\* axis as they were when it began.
C2_RaiseLeavesMapUnchanged == Raised => SameMap

\* C3: after a successful setCoeff(l, m, v), getCoeff(l, m) returns v and
\* every other coefficient reads as it did before the call.
C3_SetGetRoundTrip ==
    (last.op = "setCoeff" /\ last.outcome = "ok") =>
        LET l == last.args[1]
            m == last.args[2]
            v == last.args[3]
        IN  /\ ValidLM(l, m)
            /\ GetCoeffValue(l, m) = v
            /\ \A lm \in Pairs \ { <<l, m>> } :
                  GetCoeffValue(lm[1], lm[2]) = pre.y[GetIdx(lm[1], lm[2])]

C3_Witness ==
    /\ last.op = "setCoeff" /\ last.outcome = "ok"
    /\ last.args = <<1, -1, RInt(2)>>
    /\ \E lm \in Pairs \ { <<1, -1>> } : pre.y[GetIdx(lm[1], lm[2])] # RInt(0)
    /\ pre.y[GetIdx(1, -1)] # RInt(2)

\* C4: n = l*l + l + m maps the valid (l, m) pairs one-to-one onto 0..N-1
\* with N = (lmax+1)^2, degree l filling l*l .. l*l+2l, in the order the
\* loops over l and m run; N and lmax never change.
C4_State ==
    /\ N = (lmax + 1) * (lmax + 1)
    /\ Cardinality(Pairs) = N
    /\ DOMAIN y = 0..(N - 1)
    /\ \A lm \in Pairs :
          /\ SetIdx(lm[1], lm[2]) \in 0..(N - 1)
          /\ GetIdx(lm[1], lm[2]) = SetIdx(lm[1], lm[2])
          /\ LoopPairs(0, 0, lmax)[SetIdx(lm[1], lm[2]) + 1] = lm
    /\ \A a \in Pairs, b \in Pairs :
          SetIdx(a[1], a[2]) = SetIdx(b[1], b[2]) => a = b
    /\ { SetIdx(lm[1], lm[2]) : lm \in Pairs } = 0..(N - 1)
    /\ \A l \in 0..lmax :
          { SetIdx(l, m) : m \in -l..l } = (l * l)..(l * l + 2 * l)

C4_IndexBijection == []C4_State /\ [][N' = N /\ lmax' = lmax]_vars

C4_Witness ==
    /\ lmax = MaxLmax
    /\ last.op = "setCoeff" /\ last.outcome = "ok"
    /\ last.args[1] = lmax /\ last.args[2] = lmax
    /\ y[N - 1] # pre.y[N - 1]

\* C5: setCoeff(l, m, v) and getCoeff(l, m) with l outside [0, lmax] or m
\* outside [-l, l] raise IndexError, whatever v and the configuration.
C5_InvalidLMRaisesIndexError ==
    (last.op \in { "setCoeff", "getCoeff" } /\ ~ValidLM(last.args[1], last.args[2]))
        => last.outcome = "IndexError"

\* C6: a flat index outside 0..N-1 in getCoeff(inds) raises IndexError, and
\* neither batch operation reads or writes y outside 0..N-1.
C6_NoAccessOutsideRange ==
    /\ ~last.oob
    /\ (last.op = "getCoeffs" /\
        \E i \in 1..Len(last.args[1]) : last.args[1][i] \notin 0..(N - 1))
           => last.outcome = "IndexError"

\* the first entry of the batch (inds, coeffs) that gives index 0 a value
\* other than 1, or 0 when there is none
FirstNonUnity(inds, coeffs) ==
    LET S == { i \in 1..Len(inds) : i <= Len(coeffs) /\ inds[i] = 0 /\ coeffs[i] # RInt(1) }
    IN  IF S = {} THEN 0 ELSE CHOOSE i \in S : \A j \in S : i <= j

C8_SizeMismatchRaisesValueError ==
    (last.op = "setCoeffs" /\ Len(last.args[1]) # Len(last.args[2])) =>
        /\ last.outcome = "ValueError"
        /\ SameMap

\* C9: evaluate leaves y, p, g and the axis (hence every getCoeff result)
\* as they were, for every angle, point and gradient setting.
C9_EvaluateLeavesMap ==
    last.op = "evaluate" =>
        /\ SameMap
        /\ \A lm \in Pairs : GetCoeffValue(lm[1], lm[2]) = pre.y[GetIdx(lm[1], lm[2])]

C9_Witness ==
    /\ last.op = "evaluate"
    /\ last.args[1] # 0
    /\ last.args[4]
    /\ \E n \in 0..(N - 1) : y[n] # RInt(0) /\ n > 0
    /\ tmp_vec_ptr = "tmp_vec"
    /\ tmp_vec # ZeroVec(N)
    /\ dI # ZeroVec(3 + N)

\* C10: on return from rotate(theta) y is the rotated coefficient vector
\* and p and g are those of the new y, so every later call starts from the
\* rotated map.
C10_RotateIsPermanent ==
    (last.op = "rotate" /\ last.outcome = "ok") =>
        /\ y = WRotate(CosDeg(last.args[1]), SinDeg(last.args[1]),
                       pre.axis, pre.y, lmax)
        /\ p = update(y, N).p
        /\ g = update(y, N).g
        /\ axis = pre.axis

C10_Witness ==
    /\ last.op = "rotate"
    /\ last.args[1] = 90
    /\ y # pre.y
    /\ p # pre.p
    /\ g # pre.g

\* C11: after reset(), from whatever state it was called in, every
\* coefficient of y is zero, except y(0) = 1 on a map whose constant term is
\* fixed, and p = A1 y and g = A y.
C11_ResetClearsMap ==
    (last.op = "reset" /\ last.outcome = "ok") =>
        /\ \A n \in 0..(N - 1) :
              y[n] = IF n = 0 /\ Y00_is_unity THEN RInt(1) ELSE RInt(0)
        /\ p = SpMatVec(A1(N), y, N)
        /\ g = SpMatVec(A(N), y, N)

C11_Witness ==
    /\ last.op = "reset" /\ last.outcome = "ok"
    /\ lmax = MaxLmax
    /\ \E n \in 1..(N - 1) : pre.y[n] # RInt(0)
    /\ pre.p # p
    /\ pre.g # g

\* some entry of the vector v, over the indices D, is not a number
HasNaN(v, D) == \E k \in D : IsNaN(v[k])

\* the point of the call recorded in last has x^2 + y^2 > 1
PointOutside ==
    RGt(RAdd(RMul(last.args[2], last.args[2]), RMul(last.args[3], last.args[3])),
        RInt(1))

\* what evaluate returns for the call recorded in last: NaN outside the
\* unit disk, and inside it a number unless y or the axis held none
SentinelOnlyOutside ==
    /\ last.outcome = "ok"
    /\ Len(ret) = 1
    /\ PointOutside => IsNaN(ret[1])
    /\ (~PointOutside /\ IsNaN(ret[1])) =>
          (HasNaN(pre.y, 0..(N - 1)) \/ HasNaN(pre.axis, 1..3))

\* C12 as stated: evaluate at a point with x^2 + y^2 > 1 returns NaN and
\* raises nothing, for every theta, with or without the gradient; at a point
\* with x^2 + y^2 <= 1 it does not return NaN for that reason.
C12_OutOfDiskIsNaN == last.op = "evaluate" => SentinelOnlyOutside

\* C12 as amended: the same, except when the gradient is requested of the
\* arbitrary-precision instantiation, which raises NotImplementedError
\* wherever the point lies.
C12_OutOfDiskIsNaNUnlessMultiGradient ==
    (last.op = "evaluate" /\ ~(T = "Multi" /\ last.args[4])) => SentinelOnlyOutside

C12_Witness ==
    /\ last.op = "evaluate" /\ last.outcome = "ok"
    /\ last.args[1] = 90
    /\ last.args[4]
    /\ PointOutside
    /\ ret = <<NaN>>
    /\ \E n \in 1..(N - 1) : y[n] # RInt(0)

\* an evaluation on the edge of the disk that returns a number
C12_EdgeReached ==
    /\ last.op = "evaluate" /\ last.outcome = "ok"
    /\ RAdd(RMul(last.args[2], last.args[2]), RMul(last.args[3], last.args[3])) = RInt(1)
    /\ ~IsNaN(ret[1])
    /\ ret[1] # RInt(0)

\* C14: on the arbitrary-precision instantiation evaluate with the gradient
\* requested raises NotImplementedError for every theta and every point, in
\* or out of the unit disk, leaving y, p, g, the axis and dI as they were;
\* without the gradient it returns a value as on any other map.
C14_MultiGradientNotImplemented ==
    (last.op = "evaluate" /\ T = "Multi") =>
        IF last.args[4]
        THEN /\ last.outcome = "NotImplementedError"
             /\ ret = <<>>
             /\ SameMap
             /\ dI = pre.dI
        ELSE SentinelOnlyOutside

C14_Witness ==
    /\ T = "Multi"
    /\ last.op = "evaluate" /\ last.outcome = "NotImplementedError"
    /\ last.args[1] = 90
    /\ PointOutside
    /\ \E n \in 1..(N - 1) : y[n] # RInt(0)

\* the squared Euclidean norm of the 3-vector v
Norm2(v) == RAdd(RAdd(RMul(v[1], v[1]), RMul(v[2], v[2])), RMul(v[3], v[3]))

\* C15: the stored axis has unit norm in every state; after setAxis(v), for
\* every v, it is v divided by its Euclidean norm, and getAxis returns the
\* stored axis.
C15_AxisHasUnitNorm ==
    /\ Norm2(axis) = RInt(1)
    /\ last.op = "Map" => axis = <<RInt(0), RInt(1), RInt(0)>>
    /\ last.op = "setAxis" =>
          \A k \in 1..3 :
              RMul(RMul(axis[k], axis[k]), Norm2(last.args[1]))
                  = RMul(last.args[1][k], last.args[1][k])
    /\ last.op = "getAxis" => ret = <<axis>>

\* C13: construction of a map or a solver fails, and leaves no instance to
\* call, when lmax < 0 or lmax > 50, and succeeds when 0 <= lmax <= 50.
C13_LmaxChecked ==
    made.kind \in { "Map", "Ops" } =>
        /\ made.outcome = "ok" <=> (0 <= made.lmax /\ made.lmax <= 50)
        /\ made.outcome = "ok" => made.N = (made.lmax + 1) * (made.lmax + 1)
        /\ made.outcome # "ok" =>
              /\ made.outcome = "error"
              /\ ocall.op = made.kind /\ ocall.n = 0
              /\ G = [sT |-> <<>>, dsTdb |-> <<>>, dsTdr |-> <<>>]
              /\ dotRz_result = <<>>

C13_Witness ==
    /\ made.kind = "Map"
    /\ made.lmax = 51
    /\ made.outcome = "error"

\* a construction at the highest degree supported, and one below zero
C13_MaxReached == made.kind = "Ops" /\ made.lmax = 50 /\ made.outcome = "ok"

C13_NegativeReached == made.kind = "Ops" /\ made.lmax = -1 /\ made.outcome = "error"

\* C16: with r = 0 every row sT returns equals rT, whatever b, and the
\* gradient call returns zero for d/db of every row and zero for d/dr,
\* whatever the upstream adjoint.
C16_NoOccultorIsBaseline ==
    /\ (ocall.op = "sT" /\ ocall.args[2] = RInt(0)) =>
          /\ Len(ocall.ret) = Len(ocall.args[1])
          /\ \A i \in 1..Len(ocall.ret) : ocall.ret[i] = rT(made.N)
    /\ (ocall.op = "sT_grad" /\ ocall.args[2] = RInt(0)) =>
          /\ ocall.ret[1] = [i \in 1..Len(ocall.args[1]) |-> RInt(0)]
          /\ ocall.ret[2] = RInt(0)

C16_Witness ==
    /\ ocall.op = "sT_grad" /\ ocall.args[2] = RInt(0)
    /\ made.lmax = MaxLmax
    /\ Len(ocall.args[1]) = MaxBatch
    /\ ocall.args[1][1] # ocall.args[1][2]
    /\ ocall.args[3][1][0] # RInt(1)
    /\ ocall.ret[2] = RInt(0)

\* C17: a row of sT for b >= 1 + r, b = 1 + r included, equals the baseline
\* rT, and in the gradient call its d/db is zero and it adds nothing to
\* d/dr.
C17_NoOverlapIsBaseline ==
    LET b == ocall.args[1]
        r == ocall.args[2]
        Apart(i) == RGe(b[i], RAdd(RInt(1), r))
    IN  /\ ocall.op = "sT" =>
              \A i \in 1..Len(b) : Apart(i) => ocall.ret[i] = rT(made.N)
        /\ ocall.op = "sT_grad" =>
              /\ \A i \in 1..Len(b) : Apart(i) => ocall.ret[1][i] = RInt(0)
              /\ (\A i \in 1..Len(b) : Apart(i)) => ocall.ret[2] = RInt(0)

C17_Witness ==
    /\ ocall.op = "sT"
    /\ made.lmax = MaxLmax
    /\ ocall.args[2] = RInt(1)
    /\ ocall.args[1] = <<RInt(2), RInt(1)>>
    /\ ocall.ret[1] = rT(made.N)
    /\ ocall.ret[2] # rT(made.N)

\* C18: a row of sT for b <= r - 1 is zero in every entry but the first;
\* and for all b >= 0 and r >= 0 the case b <= r - 1 excludes b >= 1 + r
\* and r = 0, so each geometry gets one outcome.
C18_FullOccultationIsZero ==
    /\ ocall.op = "sT" =>
          \A i \in 1..Len(ocall.args[1]) :
              RGe(RSub(ocall.args[2], RInt(1)), ocall.args[1][i]) =>
                  \A k \in 1..(made.N - 1) : ocall.ret[i][k] = RInt(0)
    /\ \A b \in Bs, r \in Rs :
          LET full == RGe(RSub(r, RInt(1)), b)
              apart == RGe(b, RAdd(RInt(1), r))
              bare == r = RInt(0)
          IN  /\ ~(full /\ apart)
              /\ ~(full /\ bare)
              /\ Branch(b, r) = "full" <=> full
              /\ Branch(b, r) = "none" <=> (apart \/ bare)
              /\ Branch(b, r) = "partial" <=> ~(full \/ apart \/ bare)

C18_Witness ==
    /\ ocall.op = "sT"
    /\ made.lmax = MaxLmax
    /\ ocall.args[2] = RInt(1)
    /\ ocall.args[1] = <<RInt(0), RInt(1)>>
    /\ \A k \in 1..(made.N - 1) : ocall.ret[1][k] = RInt(0)
    /\ \E k \in 1..(made.N - 1) : ocall.ret[2][k] # RInt(0)

\* C19: a dotRz by theta2 of the result of a dotRz of M by theta1 equals
\* the dotRz of M by theta1 + theta2, row by row; and rotate(theta1)
\* followed by rotate(theta2) leaves the y that rotate(theta1 + theta2)
\* leaves.
C19_GroupLaw ==
    /\ (last.op = "rotate" /\ last.prev.op = "rotate") =>
          LET t == last.prev.args[1] + last.args[1]
          IN  y = WRotate(CosDeg(t), SinDeg(t), axis, last.prev.y, lmax)
    /\ (ocall.op = "dotRz" /\ ocall.prev.op = "dotRz"
            /\ ocall.args[1] = ocall.prev.ret) =>
          LET M0 == ocall.prev.args[1]
              t1 == ocall.prev.args[2]
              t2 == ocall.args[2]
          IN  /\ Len(ocall.ret) = Len(t2)
              /\ \A i \in 1..Len(t2) :
                    LET j == IF Len(ocall.args[1]) = 1 THEN 1 ELSE i
                        k == IF Len(M0) = 1 THEN 1 ELSE j
                    IN  ocall.ret[i] = DotRzRow(M0[k], t1[j] + t2[i])

C19_Witness ==
    /\ last.op = "rotate" /\ last.prev.op = "rotate"
    /\ last.prev.args[1] = 90 /\ last.args[1] = 90
    /\ lmax = MaxLmax
    /\ y # last.prev.y
    /\ y # pre.y

\* two dotRz calls in a row, the second on the result of the first
C19_RowsReached ==
    /\ ocall.op = "dotRz" /\ ocall.prev.op = "dotRz"
    /\ ocall.args[1] = ocall.prev.ret
    /\ made.lmax = MaxLmax
    /\ ocall.prev.args[2] = <<90, 180>>
    /\ ocall.args[2] = <<90, 90>>
    /\ ocall.ret[1] # ocall.prev.args[1][1]
    /\ ocall.ret[1] # ocall.prev.ret[1]

\* C20: every iterative routine ends: the elliptic-integral iteration after
\* at most 200 iterations, the M/N and I/J recursions after at most 100 and
\* 200, or sooner once a term falls below machine epsilon; a run that
\* reaches its cap returns its estimate and raises nothing.
C20_IterationsEnd ==
    /\ [](/\ it.routine = "ellip" => it.n <= 200
          /\ it.routine = "MN" => it.n <= 100
          /\ it.routine = "IJ" => it.n <= 200
          /\ ~it.raised)
    /\ <>(it.done)

C20_Witness ==
    /\ it.routine = "MN"
    /\ it.n = 100
    /\ it.done
    /\ ~it.raised

\* C27: after reset() the rotation axis is yhat = (0, 1, 0), whatever
\* setAxis stored before, and getAxis returns the stored axis; setAxis leaves
\* y, p and g as they were.
C27_ResetRestoresAxis ==
    /\ last.op = "reset" => axis = <<RInt(0), RInt(1), RInt(0)>>
    /\ last.op = "getAxis" => ret = <<pre.axis>> /\ axis = pre.axis
    /\ last.op = "setAxis" => y = pre.y /\ p = pre.p /\ g = pre.g

C27_Witness ==
    /\ last.op = "reset"
    /\ pre.axis # <<RInt(0), RInt(1), RInt(0)>>
    /\ axis = <<RInt(0), RInt(1), RInt(0)>>

\* setAxis has changed the axis of a map that holds coefficients
C27_SetAxisReached ==
    /\ last.op = "setAxis"
    /\ axis # pre.axis
    /\ \E n \in 0..(N - 1) : y[n] # RInt(0)

\* C25: on a map built with the constant term fixed at unity, y(0) = 1 in
\* every state: after construction and after every reset, setCoeff (of one
\* coefficient or of several, returning or raising), setAxis, rotate and
\* evaluate.
C25_UnityIsKept ==
    Y00_is_unity => y[0] = RInt(1)

\* a setCoeff of several coefficients has raised after writing some of them
C25_Witness ==
    /\ Y00_is_unity
    /\ last.op = "setCoeffs"
    /\ last.outcome = "ValueError"
    /\ \E i \in 1..Len(last.args[1]) : last.args[1][i] = 0
    /\ y # pre.y
    /\ y[0] = RInt(1)

\* a rotation has changed the coefficients of a map that fixes the constant
\* term
C25_RotateReached ==
    /\ Y00_is_unity
    /\ last.op = "rotate"
    /\ y # pre.y
    /\ y[0] = RInt(1)

\* setCoeff(0, 0, 1) has returned on a map that fixes the constant term
C25_SetOneReached ==
    /\ Y00_is_unity
    /\ last.op = "setCoeff"
    /\ last.outcome = "ok"
    /\ last.args[1] = 0

\* the intensity at (x0, y0) of the coefficients yv, unrotated: the
\* polynomial basis at the point times A1 yv
Intensity(yv, x0, y0) ==
    LET basis == poly_basis(ADConst(x0), ADConst(y0))
    IN  Dot([n \in 0..(N - 1) |-> basis[n].v], SpMatVec(A1(N), yv, N), N)

\* C24: evaluate(0, x, y) at a point of the disk, which reads the cached
\* vector p without rotating, returns the value of the general path with
\* R(0) the identity, that is the value computed from the current y, in
\* every state the public operations reach.
C24_ThetaZeroShortcut ==
    (/\ last.op = "evaluate" /\ last.outcome = "ok"
     /\ last.args[1] = 0
     /\ ~PointOutside) =>
        ret = <<Intensity(y, last.args[2], last.args[3])>>

\* the shortcut agrees with the general path where p is A1 y
C24_AgreesWhenCoherent ==
    (/\ last.op = "evaluate" /\ last.outcome = "ok"
     /\ last.args[1] = 0
     /\ ~PointOutside
     /\ p = SpMatVec(A1(N), y, N)) =>
        ret = <<Intensity(y, last.args[2], last.args[3])>>

C24_AgreesReached ==
    /\ last.op = "evaluate" /\ last.outcome = "ok"
    /\ last.args[1] = 0
    /\ ~PointOutside
    /\ p = SpMatVec(A1(N), y, N)
    /\ ret[1] # RInt(0)

\* the sum of the entries i, .., Len(s) of a sequence of numbers
RECURSIVE SumFrom(_, _)
SumFrom(s, i) == IF i > Len(s) THEN RInt(0) ELSE RAdd(s[i], SumFrom(s, i + 1))

\* C22: sT(b, r, upstream), with one upstream row per impact parameter,
\* returns (bb, br): bb has one entry per sample, bb[n] being dsT/db at
\* (b[n], r) times upstream[n], and br is the one number that sums
\* dsT/dr at (b[n], r) times upstream[n] over all samples; with no sample,
\* bb is empty and br = 0.
C22_GradientIsSummed ==
    ocall.op = "sT_grad" =>
        LET b == ocall.args[1]
            r == ocall.args[2]
            upstream == ocall.args[3]
            d == [n \in 1..Len(b) |-> Compute(G, b[n], r, TRUE, made.N)]
        IN  /\ Len(ocall.ret) = 2
            /\ DOMAIN ocall.ret[1] = 1..Len(b)
            /\ \A n \in 1..Len(b) :
                  ocall.ret[1][n] = Dot(d[n].dsTdb, upstream[n], made.N)
            /\ ocall.ret[2] =
                  SumFrom([n \in 1..Len(b) |->
                              Dot(d[n].dsTdr, upstream[n], made.N)], 1)
            /\ Len(b) = 0 => ocall.ret = <<<<>>, RInt(0)>>

\* two samples with different upstream rows, the first of a partial
\* occultation and the second of none
C22_Witness ==
    /\ ocall.op = "sT_grad"
    /\ made.N > 1
    /\ Len(ocall.args[1]) = 2
    /\ ocall.args[3][1] # ocall.args[3][2]
    /\ Branch(ocall.args[1][1], ocall.args[2]) = "partial"
    /\ Branch(ocall.args[1][2], ocall.args[2]) = "none"
    /\ ocall.ret[1][1] # RInt(0)
    /\ ocall.ret[1][2] = RInt(0)
    /\ ocall.ret[2] # RInt(0)

\* two samples of a partial occultation, each adding to br
C22_BothPartialReached ==
    /\ ocall.op = "sT_grad"
    /\ made.N > 1
    /\ Len(ocall.args[1]) = 2
    /\ ocall.args[3][1] # ocall.args[3][2]
    /\ \A n \in 1..2 : Branch(ocall.args[1][n], ocall.args[2]) = "partial"
    /\ ocall.ret[1][1] # ocall.ret[1][2]
    /\ ocall.ret[2] # RInt(0)

C22_EmptyReached ==
    /\ ocall.op = "sT_grad"
    /\ ocall.args[1] = <<>>
    /\ ocall.ret = <<<<>>, RInt(0)>>

\* a solver on which nothing has been computed
FreshG(n) == [sT |-> ZeroVec(n), dsTdb |-> ZeroVec(n), dsTdr |-> ZeroVec(n)]

\* C23: sT(b, r) returns len(b) rows of N columns, row n being the solution
\* for (b[n], r) whatever the other entries of b and whatever was called
\* before on the instance; dotRz(M, theta) returns one row per angle, the one
\* row of M serving every angle when M has a single row.
C23_OneRowPerSample ==
    /\ ocall.op = "sT" =>
          LET b == ocall.args[1]
              r == ocall.args[2]
          IN  /\ DOMAIN ocall.ret = 1..Len(b)
              /\ \A n \in 1..Len(b) :
                    /\ DOMAIN ocall.ret[n] = 0..(made.N - 1)
                    /\ ocall.ret[n] = Compute(FreshG(made.N), b[n], r, FALSE, made.N).sT
    /\ ocall.op = "dotRz" =>
          LET M == ocall.args[1]
              theta == ocall.args[2]
          IN  /\ DOMAIN ocall.ret = 1..Len(theta)
              /\ \A i \in 1..Len(theta) :
                    /\ DOMAIN ocall.ret[i] = 0..(made.N - 1)
                    /\ ocall.ret[i] =
                          DotRzRow(IF Len(M) = 1 THEN M[1] ELSE M[i], theta[i])

\* a second call on the instance, for two samples of different geometry
C23_Witness ==
    /\ ocall.op = "sT"
    /\ ocall.n = 2
    /\ made.N > 1
    /\ Len(ocall.args[1]) = 2
    /\ Branch(ocall.args[1][1], ocall.args[2]) = "partial"
    /\ Branch(ocall.args[1][2], ocall.args[2]) = "full"
    /\ ocall.ret[1] # ocall.ret[2]

\* one row of M has served two different angles
C23_BroadcastReached ==
    /\ ocall.op = "dotRz"
    /\ made.N > 1
    /\ Len(ocall.args[1]) = 1
    /\ Len(ocall.args[2]) = 2
    /\ ocall.ret[1] # ocall.ret[2]

\* no sample and no angle give no row
C23_EmptyReached ==
    /\ ocall.op \in { "sT", "dotRz" }
    /\ ocall.ret = <<>>

\* the name of the coefficient of degree l and order m, for l <= 2
NameOf(l, m) ==
    IF l = 0 THEN "Y_{0,0}"
    ELSE IF l = 1 THEN <<"Y_{1,-1}", "Y_{1,0}", "Y_{1,1}">>[m + 2]
    ELSE <<"Y_{2,-2}", "Y_{2,-1}", "Y_{2,0}", "Y_{2,1}", "Y_{2,2}">>[m + 3]

\* the coefficient vector with 1 at index n and 0 elsewhere
UnitY(n) == [k \in 0..(N - 1) |-> IF k = n THEN RInt(1) ELSE RInt(0)]

\* the derivative with respect to y(n) of the intensity at (x0, y0) of the
\* map turned by theta_deg: the intensity being linear in y, the intensity
\* of the n-th unit vector
CoeffDeriv(n, theta_deg, x0, y0) ==
    IF theta_deg = 0 THEN Intensity(UnitY(n), x0, y0)
    ELSE Intensity(WRotate(CosDeg(theta_deg), SinDeg(theta_deg), axis,
                           UnitY(n), lmax), x0, y0)

\* C26: dI has 3 + N entries named theta, x, y and then one name per
\* coefficient, dF has 4 + N entries named theta, xo, yo, ro and then one
\* name per coefficient, the name at offset + n being Y_{l,m} for exactly the
\* (l, m) with n = l * l + l + m; evaluate_with_gradient leaves the derivative
\* with respect to coefficient n, where it is a number, in dI(3 + n).
C26_GradientLayout ==
    /\ DOMAIN dI = 0..(2 + N)
    /\ Len(dI_names) = 3 + N
    /\ SubSeq(dI_names, 1, 3) = <<"theta", "x", "y">>
    /\ DOMAIN dF = 0..(3 + N)
    /\ Len(dF_names) = 4 + N
    /\ SubSeq(dF_names, 1, 4) = <<"theta", "xo", "yo", "ro">>
    /\ \A l \in 0..lmax : \A m \in (-l)..l : \A n \in 0..(N - 1) :
          /\ (dI_names[3 + n + 1] = NameOf(l, m)) <=> (n = l * l + l + m)
          /\ (dF_names[4 + n + 1] = NameOf(l, m)) <=> (n = l * l + l + m)
    /\ (/\ last.op = "evaluate" /\ last.outcome = "ok"
        /\ last.args[4]
        /\ ~PointOutside) =>
          \A n \in 0..(N - 1) :
              LET d == CoeffDeriv(n, last.args[1], last.args[2], last.args[3])
              IN  ~IsNaN(d) => dI[3 + n] = d

\* a gradient has been computed on a turned map of degree 1, with
\* derivatives that differ between the coefficients
C26_Witness ==
    /\ lmax = 1
    /\ dI_names[3 + 2] = "Y_{1,-1}"
    /\ dF_names[4 + 4] = "Y_{1,1}"
    /\ last.op = "evaluate" /\ last.outcome = "ok"
    /\ last.args[4]
    /\ last.args[1] # 0
    /\ ~PointOutside
    /\ dI # pre.dI
    /\ \E n \in 1..(N - 1) : dI[3 + n] # dI[3] /\ dI[3 + n] # RInt(0)
    /\ \A n \in 0..(N - 1) : ~IsNaN(dI[3 + n])

\* what the call of context c returns when no other call is in progress
Alone(c) ==
    IF ctx[c].job = "evaluate"
    THEN LET theta_deg == ctx[c].args[1]
             x0 == ctx[c].args[2]
             y0 == ctx[c].args[3]
         IN  IF RGt(RAdd(RMul(x0, x0), RMul(y0, y0)), RInt(1)) THEN <<NaN>>
             ELSE IF theta_deg = 0 THEN <<Intensity(y, x0, y0)>>
             ELSE <<Intensity(WRotate(CosDeg(theta_deg), SinDeg(theta_deg),
                                      axis, y, lmax), x0, y0)>>
    ELSE <<Compute(FreshG(made.N), ctx[c].args[1], ctx[c].args[2],
                   FALSE, made.N).sT>>

\* C21: when two evaluations on one instance interleave, two evaluate calls
\* on a map or two rows of sT on a solver, neither reads scratch state the
\* other wrote (tmp_vec, tmp_col_vec, tmp_vec_ptr, the solver's sT): each
\* returns the value it returns when run alone.
C21_ContextsDoNotInterfere ==
    \A c \in Contexts : ctx[c].pc = "done" => ctx[c].ret = Alone(c)

\* a call that ran from start to end with no other call in progress returns
\* that value
C21_AloneAgrees ==
    \A c \in Contexts :
        (ctx[c].pc = "done" /\ \A d \in Contexts \ { c } : ctx[d].pc = "idle")
            => ctx[c].ret = Alone(c)

\* a call has ended while another was in progress
C21_InterleavingReached ==
    \E c \in Contexts, d \in Contexts :
        /\ ctx[c].job = "evaluate"
        /\ ctx[c].pc = "done" /\ ~IsNaN(ctx[c].ret[1])
        /\ ctx[d].pc \notin { "idle", "done" }
        /\ ctx[c].ret = Alone(c)

\* an evaluate call has returned a value other than that it returns alone
C21_EvaluateInterfered ==
    \E c \in Contexts :
        /\ ctx[c].job = "evaluate" /\ ctx[c].pc = "done"
        /\ ctx[c].ret # Alone(c)

\* a row of sT holds a solution other than that of its own (b, r)
C21_RowInterfered ==
    \E c \in Contexts :
        /\ ctx[c].job = "sT" /\ ctx[c].pc = "done"
        /\ ctx[c].ret # Alone(c)

====
